---- MODULE Spec2Model ----
(***************************************************************************)
(* The falling-sand material automaton of the FallingSand component:      *)
(* the grid held in gridRef (width, height, cells, nextCells, age), the   *)
(* construction and resize of the grid, the brush (drawAtCurrentPosition),*)
(* clearSimulation, and the tick (updateSimulation with the per-material  *)
(* rules updateSand, updateLiquid, updateFire, updateSmoke, updatePlant). *)
(*                                                                         *)
(* JavaScript runs every handler to completion, so the handlers are       *)
(* atomic with respect to each other.  The tick visits the cells in a     *)
(* freshly shuffled order; the model keeps the set of cells still to be   *)
(* visited and lets every order happen, one visited cell per step, while  *)
(* no other handler can run (phase = "tick").                             *)
(***************************************************************************)
EXTENDS Integers, Sequences, FiniteSets, TLC

VARIABLES
    width,      \* gridRef.current.width
    height,     \* gridRef.current.height
    cells,      \* gridRef.current.cells      (Uint8Array, index -> material)
    nextCells,  \* gridRef.current.nextCells  (Uint8Array)
    age,        \* gridRef.current.age        (Uint16Array)
    phase,      \* "idle", or "tick" while updateSimulation's loop runs
    pending,    \* indices of the shuffled order not visited yet
    isPaused,   \* the component's isPaused state (the Pause button)
    fx,         \* history: what the last rule application read and wrote
    last,       \* history: the operation that acted last (and, where a
                \*          specification logs them, its inputs)
    pre,        \* history: the grid when that operation began (where logged)
    count       \* history: operations performed so far, per kind

gridVars == <<width, height, cells, nextCells, age>>
vars ==
    <<width, height, cells, nextCells, age, phase, pending, isPaused, fx, last, pre, count>>

----------------------------------------------------------------------------
(* enum Material *)
EMPTY == 0
SAND == 1
WATER == 2
WALL == 3
FIRE == 4
WOOD == 5
PLANT == 6
OIL == 7
SMOKE == 8
SALT == 9

Materials == EMPTY..SALT

(* A read past the end of a typed array yields undefined, which equals no  *)
(* material.                                                                *)
UNDEF == 0 - 1

(* MATERIALS[m].density, times ten so that 0.5, 1.5, 0.1 and 2.5 are       *)
(* integers; only the order of densities is ever used.                     *)
Density(m) ==
    CASE m = EMPTY -> 0
      [] m = SAND -> 30
      [] m = WATER -> 20
      [] m = WALL -> 100
      [] m = FIRE -> 5
      [] m = WOOD -> 40
      [] m = PLANT -> 10
      [] m = OIL -> 15
      [] m = SMOKE -> 1
      [] m = SALT -> 25

(* MATERIALS[m].flammable *)
Flammable(m) == m \in {WOOD, PLANT, OIL}

(* MATERIALS[m].lifespan *)
FIRE_LIFESPAN == 40
SMOKE_LIFESPAN == 100
Lifespan(m) ==
    CASE m = FIRE -> FIRE_LIFESPAN
      [] m = SMOKE -> SMOKE_LIFESPAN
      [] OTHER -> 0

(* MATERIALS[m].spreadRate *)
SpreadRate(m) ==
    CASE m = WATER -> 4
      [] m = FIRE -> 2
      [] m = PLANT -> 1
      [] m = OIL -> 3
      [] m = SMOKE -> 1
      [] OTHER -> 0

(* Uint16Array element width *)
AgeModulus == 65536

----------------------------------------------------------------------------
(* Bounds of the model. *)
MaxEdits == 2       \* draws, clears and resizes per run of Spec
MaxTicks == 2       \* updateSimulation calls per run of Spec
MaxStrokes == 2     \* draws, clears and resizes per run of SpecPaint
MaxPaintTicks == 1  \* updateSimulation calls per run of SpecPaint
MaxParticles == 2   \* particles on the grid when a tick of SpecPaint starts
MaxLifeDraws == 4   \* draws per run of SpecLife
MaxLifeTicks == 100 \* updateSimulation calls per run of SpecLife
MaxBurning == 1     \* Fire and Smoke cells when a tick of SpecChain starts
MaxStrokeCoord == 4 \* largest pointer coordinate of SpecStroke, either sign
MaxStaleTicks == 2  \* updateSimulation calls of SpecStale beyond the Fire lifespan
MaxTouches == 4     \* touch events per run of SpecTouch

----------------------------------------------------------------------------
(* Typed-array access: a write outside the array is dropped, a read        *)
(* outside it is undefined.                                                 *)
Put(a, i, v) == IF i \in DOMAIN a THEN [a EXCEPT ![i] = v] ELSE a
Get(a, i) == IF i \in DOMAIN a THEN a[i] ELSE UNDEF

Max(a, b) == IF a >= b THEN a ELSE b
Min(a, b) == IF a <= b THEN a ELSE b
Abs(a) == IF a >= 0 THEN a ELSE 0 - a

(* Math.floor((inner * 0.5) / 4) * 4 for a whole number of pixels *)
GridSize(inner) == ((inner \div 2) \div 4) * 4

Indices(w, h) == 0 .. (w * h - 1)

(* new Uint8Array(n) / new Uint16Array(n): all zero *)
Zeroes(w, h) == [i \in Indices(w, h) |-> 0]

(* "Add walls around the edges": the indices the two loops assign, top and *)
(* bottom row for every x, left and right column for every y.              *)
WallWrites(w, h) ==
    {x : x \in 0 .. (w - 1)} \cup {x + (h - 1) * w : x \in 0 .. (w - 1)}
    \cup {0 + y * w : y \in 0 .. (h - 1)} \cup {w - 1 + y * w : y \in 0 .. (h - 1)}

AddWalls(a, w, h) == [i \in DOMAIN a |-> IF i \in WallWrites(w, h) THEN WALL ELSE a[i]]

(* The bounds test of the brush and the edge test of the tick.             *)
IsInterior(x, y, w, h) == x > 0 /\ x < w - 1 /\ y > 0 /\ y < h - 1
IsEdge(x, y, w, h) == x = 0 \/ x = w - 1 \/ y = 0 \/ y = h - 1

Interior(w, h) == {i \in Indices(w, h) : ~IsEdge(i % w, i \div w, w, h)}
Border(w, h) == {i \in Indices(w, h) : IsEdge(i % w, i \div w, w, h)}

----------------------------------------------------------------------------
NoFx == [index |-> UNDEF, material |-> EMPTY, touched |-> {}, moved |-> {},
         expired |-> FALSE]

Snapshot == [width |-> width, height |-> height, cells |-> cells, age |-> age]

NoPre == [width |-> 0, height |-> 0, cells |-> <<>>, age |-> <<>>]

Bump(kind) == [count EXCEPT ![kind] = @ + 1]

(* The initialising effect: the grid is sized from the window, zeroed and  *)
(* walled.                                                                  *)
InitGrid(innerWidth, innerHeight) ==
    LET w == GridSize(innerWidth)
        h == GridSize(innerHeight)
    IN  /\ width = w
        /\ height = h
        /\ cells = AddWalls(Zeroes(w, h), w, h)
        /\ nextCells = Zeroes(w, h)
        /\ age = Zeroes(w, h)

(* window.innerWidth / innerHeight: 7 gives a side of 0, 8 a side of 4.    *)
InnerSizes == {7, 8}

InitHistory ==
    /\ phase = "idle"
    /\ pending = {}
    /\ isPaused = FALSE
    /\ fx = NoFx
    /\ last = [op |-> "init"]
    /\ pre = NoPre
    /\ count = [edit |-> 0, tick |-> 0]

Init ==
    /\ \E iw \in InnerSizes, ih \in InnerSizes : InitGrid(iw, ih)
    /\ InitHistory

----------------------------------------------------------------------------
(* Mutant: i / steps taken as a whole-number quotient.                     *)
RoundAtWhole(prev, d, i, steps) == prev + d * (i \div steps)

(* Math.round(prev + d * (i / steps)): the nearest integer, halves upward. *)
(* The exact quotient; the floating-point value rounds the same way for    *)
(* every stroke of up to 21 steps, which covers the strokes drawn here.    *)
RoundAt(prev, d, i, steps) == (2 * (prev * steps + d * i) + steps) \div (2 * steps)

(* drawAtCurrentPosition, the interpolation: the points from (prevX,prevY) *)
(* to (x,y).                                                                *)
StrokeSteps(prevX, prevY, x, y) == Max(Max(Abs(x - prevX), Abs(y - prevY)), 1)

StrokePoints(prevX, prevY, x, y) ==
    LET steps == StrokeSteps(prevX, prevY, x, y)
    IN  [k \in 1 .. (steps + 1) |->
            <<RoundAt(prevX, x - prevX, k - 1, steps),
              RoundAt(prevY, y - prevY, k - 1, steps)>>]

(* Mutant: the brush leaves out the cells at exactly its radius.           *)
InBrushInside(bx, by, brushSize) == bx * bx + by * by < brushSize * brushSize

(* The brush test bx*bx + by*by <= brushSize*brushSize.                    *)
InBrush(bx, by, brushSize) == bx * bx + by * by <= brushSize * brushSize

(* Mutant: the bounds test has no right-hand limit.                        *)
InBoundsNoRight(drawX, drawY, w, h) == drawX > 0 /\ drawY > 0 /\ drawY < h - 1

(* Mutant: the bounds test lets the top row through.                       *)
InBoundsTopRow(drawX, drawY, w, h) ==
    drawX > 0 /\ drawX < w - 1 /\ drawY >= 0 /\ drawY < h - 1

(* The bounds test that guards a brush write.                              *)
InBounds(drawX, drawY, w, h) == IsInterior(drawX, drawY, w, h)

(* Mutant: the brush overwrites walls whatever it draws.                   *)
MayOverwriteAll(old, selectedMaterial, isErasing) == TRUE

(* "Don't overwrite walls unless explicitly drawing walls".                *)
MayOverwrite(old, selectedMaterial, isErasing) ==
    old # WALL \/ selectedMaterial = WALL \/ isErasing

(* The cells the brush writes at one interpolated point (pointX, pointY):  *)
(* index = drawX + drawY * width for every offset of the brush that passes *)
(* the bounds test, where the cell may be overwritten.                     *)
BrushCells(c, w, h, pointX, pointY, selectedMaterial, brushSize, isErasing) ==
    LET aimed == {(pointX + bx) + (pointY + by) * w :
                     <<bx, by>> \in {o \in ((0 - brushSize) .. brushSize)
                                            \X ((0 - brushSize) .. brushSize) :
                                        /\ InBrush(o[1], o[2], brushSize)
                                        /\ InBounds(pointX + o[1], pointY + o[2], w, h)}}
    IN  {i \in aimed : MayOverwrite(Get(c, i), selectedMaterial, isErasing)}

(* The cells a whole stroke writes.  A cell written at one point holds the *)
(* brush's value from then on and writing it again changes nothing, and a  *)
(* wall the brush may not overwrite stays a wall, so the loop over the     *)
(* points writes exactly the cells each point can write in the grid as it  *)
(* was before the stroke.                                                   *)
StrokeCells(c, w, h, points, selectedMaterial, brushSize, isErasing) ==
    UNION {BrushCells(c, w, h, p[1], p[2], selectedMaterial, brushSize, isErasing) :
              p \in {points[k] : k \in DOMAIN points}}

(* Mutant: a cell that already holds the brush's material is emptied.     *)
DrawToggling(prevX, prevY, x, y, selectedMaterial, brushSize, isErasing) ==
    /\ phase = "idle"
    /\ \E points \in {StrokePoints(prevX, prevY, x, y)} :
       \E hit \in {StrokeCells(cells, width, height, points,
                               selectedMaterial, brushSize, isErasing)} :
       /\ cells' = [i \in DOMAIN cells |->
                        IF i \notin hit THEN cells[i]
                        ELSE IF isErasing \/ cells[i] = selectedMaterial THEN EMPTY
                        ELSE selectedMaterial]
       /\ age' = [i \in DOMAIN age |-> IF i \in hit THEN 0 ELSE age[i]]
    /\ UNCHANGED <<width, height, nextCells, phase, pending, isPaused, fx>>

(* drawAtCurrentPosition with mouseRef = (prevX, prevY, x, y) and the      *)
(* brush settings of the render that registered the handlers.              *)
DrawAtCurrentPosition(prevX, prevY, x, y, selectedMaterial, brushSize, isErasing) ==
    /\ phase = "idle"
    /\ \E points \in {StrokePoints(prevX, prevY, x, y)} :
       \E hit \in {StrokeCells(cells, width, height, points,
                               selectedMaterial, brushSize, isErasing)} :
       LET v == IF isErasing THEN EMPTY ELSE selectedMaterial
       IN  /\ cells' = [i \in DOMAIN cells |-> IF i \in hit THEN v ELSE cells[i]]
           /\ age' = [i \in DOMAIN age |-> IF i \in hit THEN 0 ELSE age[i]]
    /\ UNCHANGED <<width, height, nextCells, phase, pending, isPaused, fx>>

(* clearSimulation: every interior cell that is not a wall is emptied.     *)
ClearSimulation ==
    /\ phase = "idle"
    /\ \E hit \in {{i \in Interior(width, height) : cells[i] # WALL}} :
           /\ cells' = [i \in DOMAIN cells |-> IF i \in hit THEN EMPTY ELSE cells[i]]
           /\ age' = [i \in DOMAIN age |-> IF i \in hit THEN 0 ELSE age[i]]
    /\ UNCHANGED <<width, height, nextCells, phase, pending, isPaused, fx>>

(* Mutant: the old cells are read with the new grid's row length.         *)
CopyOldSameStride(old, oldWidth, oldHeight, w, h) ==
    [i \in Indices(w, h) |->
        IF i % w < Min(w, oldWidth) /\ i \div w < Min(h, oldHeight)
        THEN Get(old, i)
        ELSE 0]

(* Mutant: the new arrays are left as created, nothing is copied.          *)
CopyNone(old, oldWidth, oldHeight, w, h) == Zeroes(w, h)

(* handleResize: new arrays, the overlapping top-left rectangle copied,    *)
(* then the walls added.                                                    *)
CopyOld(old, oldWidth, oldHeight, w, h) ==
    [i \in Indices(w, h) |->
        IF i % w < Min(w, oldWidth) /\ i \div w < Min(h, oldHeight)
        THEN old[(i % w) + (i \div w) * oldWidth]
        ELSE 0]

HandleResize(innerWidth, innerHeight) ==
    /\ phase = "idle"
    /\ LET w == GridSize(innerWidth)
           h == GridSize(innerHeight)
       IN  /\ width' = w
           /\ height' = h
           /\ cells' = AddWalls(CopyOld(cells, width, height, w, h), w, h)
           /\ nextCells' = Zeroes(w, h)
           /\ age' = CopyOld(age, width, height, w, h)
    /\ UNCHANGED <<phase, pending, isPaused, fx>>

----------------------------------------------------------------------------
(* The outcomes of Math.random() < num / den, Math.random() being any      *)
(* number in [0, 1).                                                        *)
Chance(num, den) ==
    IF num <= 0 THEN {FALSE} ELSE IF num >= den THEN {TRUE} ELSE BOOLEAN

(* Math.random() < 0.5 ? 1 : -1 *)
Directions == {1, 0 - 1}

(* Mutant: the mover is written into the target and not taken out of its  *)
(* own cell.                                                                *)
MoveIntoCopy(nc, index, to, material) == [nc EXCEPT ![to] = material]

(* Mutant: the mover leaves its cell and is not written into the target.  *)
MoveIntoDrop(nc, index, to, material) == [nc EXCEPT ![index] = cells[to]]

(* Mutant: every target can be entered.                                    *)
CanEnterAll(target, density) == TRUE

(* Mutant: every target but a wall can be entered, whatever its density.  *)
CanEnterNotWall(target, density) == target # WALL

(* Mutant: a target of equal density is displaced too.                     *)
CanEnterEqual(target, density) ==
    target = EMPTY \/ (Density(target) <= density /\ target # WALL)

(* The test shared by the down and diagonal moves of updateSand and        *)
(* updateLiquid: the target is empty, or lighter and not a wall.           *)
CanEnter(target, density) ==
    target = EMPTY \/ (Density(target) < density /\ target # WALL)

(* nextCells[to] = material; nextCells[index] = cells[to] *)
MoveInto(nc, index, to, material) ==
    [nc EXCEPT ![to] = material, ![index] = cells[to]]

(* updateSand(x, y, index, material), with its two random draws.           *)
UpdateSand(nc, ag, index, material, direction, dissolve) ==
    LET density == Density(material)
        belowIndex == index + width
        diag1 == index + width + direction
        diag2 == index + width - direction
    IN  IF CanEnter(cells[belowIndex], density)
        THEN [next |-> MoveInto(nc, index, belowIndex, material), age |-> ag,
              touched |-> {index, belowIndex}, moved |-> {belowIndex}]
        ELSE LET to == IF CanEnter(cells[diag1], density) THEN {diag1}
                       ELSE IF CanEnter(cells[diag2], density) THEN {diag2}
                       ELSE {}
                 n1 == IF to = {} THEN nc
                       ELSE MoveInto(nc, index, CHOOSE t \in to : TRUE, material)
                 salty == material = SALT /\ cells[belowIndex] = WATER /\ dissolve
             IN  [next |-> IF salty THEN [n1 EXCEPT ![index] = WATER] ELSE n1,
                  age |-> ag,
                  touched |-> {index, belowIndex, diag1}
                              \cup (IF CanEnter(cells[diag1], density) THEN {} ELSE {diag2}),
                  moved |-> to]

(* The eight neighbours and the cell itself, as updateLiquid's and         *)
(* updateFire's loops index them.                                           *)
Around(index) == {index + dx + dy * width : dx \in (0 - 1) .. 1, dy \in (0 - 1) .. 1}

(* updateLiquid(x, y, index, material), with its three random draws.       *)
UpdateLiquid(nc, ag, index, material, direction, spread, dir) ==
    LET density == Density(material)
        belowIndex == index + width
        diag1 == index + width + direction
        diag2 == index + width - direction
        sideIndex == index + dir
    IN  IF CanEnter(cells[belowIndex], density)
        THEN [next |-> MoveInto(nc, index, belowIndex, material), age |-> ag,
              touched |-> {index, belowIndex}, moved |-> {belowIndex}]
        ELSE IF CanEnter(cells[diag1], density)
        THEN [next |-> MoveInto(nc, index, diag1, material), age |-> ag,
              touched |-> {index, belowIndex, diag1}, moved |-> {diag1}]
        ELSE IF CanEnter(cells[diag2], density)
        THEN [next |-> MoveInto(nc, index, diag2, material), age |-> ag,
              touched |-> {index, belowIndex, diag1, diag2}, moved |-> {diag2}]
        ELSE LET flows == spread /\ cells[sideIndex] = EMPTY
                 n1 == IF flows
                       THEN [nc EXCEPT ![sideIndex] = material, ![index] = EMPTY]
                       ELSE nc
                 fires == IF material = WATER
                          THEN {i \in Around(index) : Get(cells, i) = FIRE}
                          ELSE {}
             IN  [next |-> [i \in DOMAIN n1 |-> IF i \in fires THEN SMOKE ELSE n1[i]],
                  age |-> ag,
                  touched |-> {index, belowIndex, diag1, diag2}
                              \cup (IF spread THEN {sideIndex} ELSE {})
                              \cup (IF material = WATER THEN Around(index) ELSE {}),
                  moved |-> IF flows THEN {sideIndex} ELSE {}]

(* updateFire(x, y, index): rise draws Math.random() < 0.8 (only when the  *)
(* cell above is empty), ignited is the set of flammable neighbours whose  *)
(* draw Math.random() < 0.1 succeeded, smoke draws Math.random() < 0.1.    *)
UpdateFire(nc, ag, index, rise, ignited, smoke) ==
    LET aboveIndex == index - width
    IN  IF cells[aboveIndex] = EMPTY /\ rise
        THEN [next |-> [nc EXCEPT ![aboveIndex] = FIRE, ![index] = EMPTY],
              age |-> [ag EXCEPT ![aboveIndex] = ag[index]],
              touched |-> {index, aboveIndex}, moved |-> {aboveIndex}]
        ELSE LET n1 == [i \in DOMAIN nc |-> IF i \in ignited THEN FIRE ELSE nc[i]]
                 a1 == [i \in DOMAIN ag |-> IF i \in ignited THEN 0 ELSE ag[i]]
                 puffs == smoke /\ cells[aboveIndex] = EMPTY
             IN  [next |-> IF puffs THEN [n1 EXCEPT ![aboveIndex] = SMOKE] ELSE n1,
                  age |-> IF puffs THEN [a1 EXCEPT ![aboveIndex] = 0] ELSE a1,
                  touched |-> Around(index), moved |-> {}]

(* The neighbours updateFire may ignite.                                   *)
Ignitable(index) == {i \in Around(index) \ {index} : Flammable(cells[i])}

(* updateSmoke(x, y, index) with its draws: rise (< 0.9), direction,       *)
(* drift (< 0.5), spread (< 0.2), dir.                                      *)
UpdateSmoke(nc, ag, index, rise, direction, drift, spread, dir) ==
    LET aboveIndex == index - width
        diagUp == index - width + direction
        sideIndex == index + dir
    IN  IF cells[aboveIndex] = EMPTY /\ rise
        THEN [next |-> [nc EXCEPT ![aboveIndex] = SMOKE, ![index] = EMPTY], age |-> ag,
              touched |-> {index, aboveIndex}, moved |-> {aboveIndex}]
        ELSE IF cells[diagUp] = EMPTY /\ drift
        THEN [next |-> [nc EXCEPT ![diagUp] = SMOKE, ![index] = EMPTY], age |-> ag,
              touched |-> {index, aboveIndex, diagUp}, moved |-> {diagUp}]
        ELSE IF spread /\ cells[sideIndex] = EMPTY
        THEN [next |-> [nc EXCEPT ![sideIndex] = SMOKE, ![index] = EMPTY], age |-> ag,
              touched |-> {index, aboveIndex, diagUp, sideIndex}, moved |-> {sideIndex}]
        ELSE [next |-> nc, age |-> ag,
              touched |-> {aboveIndex, diagUp} \cup (IF spread THEN {sideIndex} ELSE {}),
              moved |-> {}]

(* updatePlant's candidate directions: up, up-left, up-right, left, right. *)
GrowOffsets == {0 - width, 0 - width - 1, 0 - width + 1, 0 - 1, 1}

(* updatePlant's scan for water: the 25 indices index + dx + dy * width in *)
(* loop order, dy outermost; the loops stop at the first water found.      *)
ScanIndex(index, k) == index + (((k - 1) % 5) - 2) + (((k - 1) \div 5) - 2) * width

(* Mutant: the scan finds no water.                                         *)
ScanHitsNone(index) == {}

ScanHits(index) == {k \in 1 .. 25 : Get(cells, ScanIndex(index, k)) = WATER}

ScanReads(index) ==
    LET hits == ScanHits(index)
        stop == IF hits = {} THEN 25 ELSE CHOOSE k \in hits : \A j \in hits : k <= j
    IN  {ScanIndex(index, k) : k \in 1 .. stop}

(* updatePlant(x, y, index): grow draws Math.random() < 0.01, dir is the   *)
(* chosen direction, wither draws Math.random() < 0.001.                   *)
UpdatePlant(nc, ag, index, grow, dir, wither) ==
    LET growIndex == index + dir
        grows == grow /\ cells[growIndex] = EMPTY /\ cells[growIndex] # WALL
        n1 == IF grows THEN [nc EXCEPT ![growIndex] = PLANT] ELSE nc
        hasWaterNearby == ScanHits(index) # {}
    IN  [next |-> IF ~hasWaterNearby /\ wither THEN [n1 EXCEPT ![index] = EMPTY] ELSE n1,
         age |-> ag,
         touched |-> (IF grow THEN {growIndex} ELSE {}) \cup ScanReads(index)
                     \cup (IF ~hasWaterNearby /\ wither THEN {index} ELSE {}),
         moved |-> IF grows THEN {growIndex} ELSE {}]

(* The rule applications a visited cell can make: the switch of            *)
(* updateSimulation with every outcome of the rule's random draws.         *)
RuleOutcomes(nc, ag, index, material) ==
    CASE material \in {SAND, SALT} ->
            {UpdateSand(nc, ag, index, material, direction, dissolve) :
                direction \in Directions, dissolve \in Chance(1, 100)}
      [] material \in {WATER, OIL} ->
            {UpdateLiquid(nc, ag, index, material, direction, spread, dir) :
                direction \in Directions,
                spread \in Chance(SpreadRate(material), 10),
                dir \in Directions}
      [] material = FIRE ->
            {UpdateFire(nc, ag, index, rise, ignited, smoke) :
                rise \in Chance(8, 10),
                ignited \in SUBSET Ignitable(index),
                smoke \in Chance(1, 10)}
      [] material = SMOKE ->
            {UpdateSmoke(nc, ag, index, rise, direction, drift, spread, dir) :
                rise \in Chance(9, 10), direction \in Directions,
                drift \in Chance(5, 10), spread \in Chance(2, 10),
                dir \in Directions}
      [] material = PLANT ->
            {UpdatePlant(nc, ag, index, grow, dir, wither) :
                grow \in Chance(1, 100), dir \in GrowOffsets,
                wither \in Chance(1, 1000)}
      [] OTHER -> {[next |-> nc, age |-> ag, touched |-> {}, moved |-> {}]}

(* The cells the loop of updateSimulation does not skip: not on the edge   *)
(* and not empty.  cells is not written during a tick, so the skipped      *)
(* cells are known when the order is drawn.                                 *)
Visited(w, h, c) == {i \in Interior(w, h) : c[i] # EMPTY}

(* updateSimulation up to its loop: nextCells.set(cells) and the shuffle.  *)
StepBegin ==
    /\ phase = "idle"
    /\ nextCells' = cells
    /\ pending' = Visited(width, height, cells)
    /\ phase' = "tick"
    /\ fx' = NoFx
    /\ UNCHANGED <<width, height, cells, age, isPaused>>

(* Aging of a visited cell: the age after age[index]++.                    *)
Aged(ag, index) == [ag EXCEPT ![index] = (@ + 1) % AgeModulus]

(* Mutant: a material outlives its lifespan by a tick.                      *)
ExpiresLate(material, a) == Lifespan(material) > 0 /\ a > Lifespan(material)

Expires(material, a) == Lifespan(material) > 0 /\ a >= Lifespan(material)

(* What expiry writes into nextCells[index].                               *)
ExpiredInto(nc, index, material) ==
    IF material = FIRE THEN [nc EXCEPT ![index] = SMOKE]
    ELSE IF material = SMOKE THEN [nc EXCEPT ![index] = EMPTY]
    ELSE nc

(* One iteration of updateSimulation's loop, for the next index of the     *)
(* shuffled order.                                                          *)
StepCell(index) ==
    /\ phase = "tick"
    /\ index \in pending
    /\ pending' = pending \ {index}
    /\ LET material == cells[index]
           a1 == IF Lifespan(material) > 0 THEN Aged(age, index) ELSE age
       IN  IF Expires(material, a1[index])
           THEN /\ nextCells' = ExpiredInto(nextCells, index, material)
                /\ age' = [a1 EXCEPT ![index] = 0]
                /\ fx' = [index |-> index, material |-> material, touched |-> {index},
                          moved |-> {}, expired |-> TRUE]
           ELSE \E r \in RuleOutcomes(nextCells, a1, index, material) :
                /\ nextCells' = r.next
                /\ age' = r.age
                /\ fx' = [index |-> index, material |-> material,
                          touched |-> r.touched \cup {index}, moved |-> r.moved,
                          expired |-> FALSE]
    /\ UNCHANGED <<width, height, cells, phase, isPaused>>

(* Mutant: the result is copied into cells and the buffers are not        *)
(* swapped.                                                                 *)
StepEndCopy ==
    /\ phase = "tick"
    /\ pending = {}
    /\ cells' = nextCells
    /\ nextCells' = nextCells
    /\ phase' = "idle"
    /\ fx' = NoFx
    /\ UNCHANGED <<width, height, age, pending, isPaused>>

(* The end of updateSimulation: the buffers are swapped.                   *)
StepEnd ==
    /\ phase = "tick"
    /\ pending = {}
    /\ cells' = nextCells
    /\ nextCells' = cells
    /\ phase' = "idle"
    /\ fx' = NoFx
    /\ UNCHANGED <<width, height, age, pending, isPaused>>

----------------------------------------------------------------------------
(* The main specification: the whole component on the smallest grids,   *)
(* a bounded number of edits (draws, clears, resizes) and of ticks.        *)
(* The brush is aimed at single cells of the 4 x 4 grid's interior: the    *)
(* point (1,0) reaches cell (1,1) alone, the point (1,3) cell (1,2).       *)
Strokes == {<<1, 0, 1, 0>>, <<1, 3, 1, 3>>}
(* The brush-size slider's minimum.                                        *)
MinBrush == 1
Selectable == Materials \ {EMPTY}

(* selectedMaterial and isErasing; the material is not used when erasing.  *)
Modes == {<<m, FALSE>> : m \in Selectable} \cup {<<SAND, TRUE>>}

Edit(op) ==
    /\ count' = Bump("edit")
    /\ last' = [op |-> op]
    /\ pre' = pre

Paint ==
    /\ count.edit < MaxEdits
    /\ \E s \in Strokes, m \in Modes :
          DrawAtCurrentPosition(s[1], s[2], s[3], s[4], m[1], MinBrush, m[2])
    /\ Edit("paint")

Clear == count.edit < MaxEdits /\ ClearSimulation /\ Edit("clear")

Resize ==
    /\ count.edit < MaxEdits
    /\ \E iw \in InnerSizes, ih \in InnerSizes : HandleResize(iw, ih)
    /\ Edit("resize")

Tick ==
    /\ count.tick < MaxTicks
    /\ StepBegin
    /\ count' = Bump("tick")
    /\ last' = [op |-> "step"]
    /\ pre' = pre

Visit == (\E i \in pending : StepCell(i)) /\ UNCHANGED <<last, pre, count>>

Swap == StepEnd /\ UNCHANGED <<last, pre, count>>

Next == Paint \/ Clear \/ Resize \/ Tick \/ Visit \/ Swap

Spec == Init /\ [][Next]_vars

----------------------------------------------------------------------------
(* The brush specification: draws with their inputs logged, on the 4 x 4   *)
(* and 8 x 4 grids, with strokes that start, end or lie outside the grid,  *)
(* sloped strokes whose points are rounded, and both brush sizes.  A tick  *)
(* may run while the grid holds few particles, so that a draw meets cells  *)
(* whose age is not 0.                                                      *)
PaintInnerWidths == {8, 16}
PaintInnerHeights == {8}
PaintStrokes == {<<1, 1, 1, 1>>, <<1, 0, 1, 0>>, <<0, 1, 3, 2>>, <<2, 1, 0, 2>>,
                 <<3, 1, 6, 2>>, <<6, 1, 8, 1>>, <<5, 5, 9, 5>>,
                 <<0 - 2, 0 - 2, 0 - 2, 0 - 1>>}
PaintBrushes == {MinBrush, MinBrush + 1}
PaintModes == {<<SAND, FALSE>>, <<WALL, FALSE>>, <<FIRE, FALSE>>, <<SAND, TRUE>>}

InitPaint ==
    /\ \E iw \in PaintInnerWidths, ih \in PaintInnerHeights : InitGrid(iw, ih)
    /\ InitHistory

Logged(entry) ==
    /\ count' = Bump("edit")
    /\ last' = entry
    /\ pre' = Snapshot

PaintLogged ==
    /\ count.edit < MaxStrokes
    /\ \E s \in PaintStrokes, m \in PaintModes, b \in PaintBrushes :
          /\ DrawAtCurrentPosition(s[1], s[2], s[3], s[4], m[1], b, m[2])
          /\ Logged([op |-> "paint", prevX |-> s[1], prevY |-> s[2], x |-> s[3],
                     y |-> s[4], material |-> m[1], brushSize |-> b,
                     isErasing |-> m[2]])

ClearLogged ==
    /\ count.edit < MaxStrokes
    /\ ClearSimulation
    /\ Logged([op |-> "clear"])

ResizeLogged ==
    /\ count.edit < MaxStrokes
    /\ \E iw \in PaintInnerWidths \cup InnerSizes, ih \in PaintInnerHeights :
          /\ HandleResize(iw, ih)
          /\ Logged([op |-> "resize", innerWidth |-> iw, innerHeight |-> ih])

TickPaint ==
    /\ count.tick < MaxPaintTicks
    /\ Cardinality(Visited(width, height, cells)) <= MaxParticles
    /\ StepBegin
    /\ count' = Bump("tick")
    /\ last' = [op |-> "step"]
    /\ pre' = NoPre

NextPaint == PaintLogged \/ ClearLogged \/ ResizeLogged \/ TickPaint \/ Visit \/ Swap

SpecPaint == InitPaint /\ [][NextPaint]_vars

----------------------------------------------------------------------------
(* The lifespan specification: one particle of Fire or Smoke lives out its *)
(* lifespan on the 4 x 4 grid.  The user walls in the cells (1,1), (2,1)   *)
(* and (2,2) with one draw of brush size 2 at (2,0), draws Fire or Smoke   *)
(* at (1,2), erases (1,1) and draws a falling material there, in this      *)
(* order and then over again.  The user draws before the first tick or in  *)
(* the frame before a lifespan ends.                                        *)
LifeDraws ==
    <<{<<2, 0, 2, 0, WALL, MinBrush + 1, FALSE>>},
      {<<1, 3, 1, 3, FIRE, MinBrush, FALSE>>, <<1, 3, 1, 3, SMOKE, MinBrush, FALSE>>},
      {<<1, 0, 1, 0, SAND, MinBrush, TRUE>>},
      {<<1, 0, 1, 0, m, MinBrush, FALSE>> : m \in {SAND, SALT, WATER, OIL}}>>
LifeDrawTicks == {0, FIRE_LIFESPAN - 1, SMOKE_LIFESPAN - 1}

InitLife ==
    /\ InitGrid(8, 8)
    /\ InitHistory

DrawLife ==
    /\ count.edit < MaxLifeDraws
    /\ count.tick \in LifeDrawTicks
    /\ \E d \in LifeDraws[(count.edit % Len(LifeDraws)) + 1] :
          DrawAtCurrentPosition(d[1], d[2], d[3], d[4], d[5], d[6], d[7])
    /\ count' = Bump("edit")
    /\ last' = [op |-> "paint"]
    /\ pre' = NoPre

TickLife ==
    /\ count.tick < MaxLifeTicks
    /\ StepBegin
    /\ count' = Bump("tick")
    /\ last' = [op |-> "step"]
    /\ pre' = Snapshot

NextLife == DrawLife \/ TickLife \/ Visit \/ Swap

SpecLife == InitLife /\ [][NextLife]_vars

----------------------------------------------------------------------------
(* The step specification: the main specification with the grid as it was *)
(* when the tick began remembered, so that the result of a tick can be     *)
(* compared with it.                                                        *)
TickLogged ==
    /\ count.tick < MaxTicks
    /\ StepBegin
    /\ count' = Bump("tick")
    /\ last' = [op |-> "step"]
    /\ pre' = Snapshot

NextStep == Paint \/ Clear \/ Resize \/ TickLogged \/ Visit \/ Swap

SpecStep == Init /\ [][NextStep]_vars

----------------------------------------------------------------------------
(* The combustion specification: on the 4 x 8 grid the user draws Wood in  *)
(* column 1 from row 3 to row 5 and then Fire on top of it, at (1,2), with *)
(* the cell above, (1,1), empty; then the simulation runs for the Fire     *)
(* lifespan.  A tick starts while at most MaxBurning cells hold Fire or    *)
(* Smoke.                                                                    *)
ChainDraws ==
    <<<<0, 3, 0, 5, WOOD, MinBrush, FALSE>>,
      <<0, 2, 0, 2, FIRE, MinBrush, FALSE>>>>
ChainFire == 9

InitChain ==
    /\ InitGrid(8, 16)
    /\ InitHistory

DrawChain ==
    /\ count.edit < Len(ChainDraws)
    /\ \E d \in {ChainDraws[count.edit + 1]} :
          DrawAtCurrentPosition(d[1], d[2], d[3], d[4], d[5], d[6], d[7])
    /\ count' = Bump("edit")
    /\ last' = [op |-> "paint"]
    /\ pre' = NoPre

TickChain ==
    /\ count.edit = Len(ChainDraws)
    /\ count.tick < FIRE_LIFESPAN
    /\ Cardinality({i \in DOMAIN cells : cells[i] \in {FIRE, SMOKE}}) <= MaxBurning
    /\ StepBegin
    /\ count' = Bump("tick")
    /\ last' = [op |-> "step"]
    /\ pre' = Snapshot

NextChain == DrawChain \/ TickChain \/ Visit \/ Swap

SpecChain == InitChain /\ [][NextChain]_vars

----------------------------------------------------------------------------
(* The resize specification: the brush specification with windows that     *)
(* differ in height as well as in width, so that a resize changes the      *)
(* number of rows, the length of a row, both or neither.                    *)
ResizeInnerSizes == {7, 8, 16}

InitResize ==
    /\ \E iw \in PaintInnerWidths, ih \in PaintInnerWidths : InitGrid(iw, ih)
    /\ InitHistory

ResizeAny ==
    /\ count.edit < MaxStrokes
    /\ \E iw \in ResizeInnerSizes, ih \in ResizeInnerSizes :
          /\ HandleResize(iw, ih)
          /\ Logged([op |-> "resize", innerWidth |-> iw, innerHeight |-> ih])

NextResize == PaintLogged \/ ResizeAny \/ TickPaint \/ Visit \/ Swap

SpecResize == InitResize /\ [][NextResize]_vars

----------------------------------------------------------------------------
(* The repeated-draw specification: the brush specification, where a draw  *)
(* may be followed at once by the same draw again (drawAtCurrentPosition   *)
(* called a second time with mouseRef and the brush settings unchanged).   *)
PaintAgain ==
    /\ last.op = "paint"
    /\ DrawAtCurrentPosition(last.prevX, last.prevY, last.x, last.y,
                             last.material, last.brushSize, last.isErasing)
    /\ last' = [last EXCEPT !.op = "repaint"]
    /\ pre' = Snapshot
    /\ count' = count

NextRepaint ==
    PaintLogged \/ PaintAgain \/ ClearLogged \/ ResizeLogged \/ TickPaint \/ Visit \/ Swap

SpecRepaint == InitPaint /\ [][NextRepaint]_vars

----------------------------------------------------------------------------
(* The stroke specification: the pointer moves over the integer positions *)
(* of a square around the origin, mouseRef starting at (0,0); each move    *)
(* makes the old position the previous one, as updateMousePosition does,   *)
(* and the interpolation of drawAtCurrentPosition is applied to the pair.  *)
(* The grid is left alone.                                                  *)
StrokeCoords == (0 - MaxStrokeCoord) .. MaxStrokeCoord

Interpolate ==
    /\ phase = "idle"
    /\ \E x \in StrokeCoords, y \in StrokeCoords :
          LET prevX == IF last.op = "stroke" THEN last.x ELSE 0
              prevY == IF last.op = "stroke" THEN last.y ELSE 0
          IN  last' = [op |-> "stroke", prevX |-> prevX, prevY |-> prevY,
                       x |-> x, y |-> y,
                       points |-> StrokePoints(prevX, prevY, x, y)]
    /\ UNCHANGED <<gridVars, phase, pending, isPaused, fx, pre, count>>

NextStroke == Interpolate

SpecStroke == Init /\ [][NextStroke]_vars

----------------------------------------------------------------------------
(* The buffer specification: the step specification without clears and     *)
(* resizes, drawing materials whose rules write into other cells' entries *)
(* of nextCells (Sand falling, Water and Oil flowing, Water extinguishing, *)
(* Fire rising, igniting and smoking) and the Wood that Fire ignites.      *)
BufferMaterials == {SAND, WATER, OIL, FIRE, WOOD}

PaintBuffer ==
    /\ count.edit < MaxEdits
    /\ \E s \in Strokes, selectedMaterial \in BufferMaterials :
          DrawAtCurrentPosition(s[1], s[2], s[3], s[4], selectedMaterial, MinBrush, FALSE)
    /\ Edit("paint")

NextBuffer == PaintBuffer \/ TickLogged \/ Visit \/ Swap

SpecBuffer == Init /\ [][NextBuffer]_vars

----------------------------------------------------------------------------
(* The sand specification: Sand and Wall drawn into, and erased from, the  *)
(* four interior cells of the 4 x 4 grid, one cell or the two cells of the *)
(* upper row at a time, and ticks with the grid before the tick kept.      *)
SandStrokes ==
    {<<1, 0, 1, 0>>, <<2, 0, 2, 0>>, <<1, 0, 2, 0>>, <<1, 3, 1, 3>>, <<2, 3, 2, 3>>}

SandModes == {<<SAND, FALSE>>, <<WALL, FALSE>>, <<SAND, TRUE>>}

PaintSand ==
    /\ count.edit < MaxEdits
    /\ \E s \in SandStrokes, m \in SandModes :
          DrawAtCurrentPosition(s[1], s[2], s[3], s[4], m[1], MinBrush, m[2])
    /\ Edit("paint")

NextSand == PaintSand \/ TickLogged \/ Visit \/ Swap

SpecSand == Init /\ [][NextSand]_vars

----------------------------------------------------------------------------
(* The smoke specification: on the 4 x 4 grid the user walls in column 2   *)
(* (the cells (2,1) and (2,2)) and draws one Smoke particle at (1,2), with *)
(* the cell above it, (1,1), empty; then the simulation runs for the Smoke *)
(* lifespan.                                                                 *)
SmokeDraws ==
    <<<<3, 1, 3, 2, WALL, MinBrush, FALSE>>,
      <<1, 3, 1, 3, SMOKE, MinBrush, FALSE>>>>

InitSmoke ==
    /\ InitGrid(8, 8)
    /\ InitHistory

DrawSmoke ==
    /\ count.edit < Len(SmokeDraws)
    /\ \E d \in {SmokeDraws[count.edit + 1]} :
          DrawAtCurrentPosition(d[1], d[2], d[3], d[4], d[5], d[6], d[7])
    /\ count' = Bump("edit")
    /\ last' = [op |-> "paint"]
    /\ pre' = NoPre

TickSmoke ==
    /\ count.edit = Len(SmokeDraws)
    /\ count.tick < SMOKE_LIFESPAN
    /\ StepBegin
    /\ count' = Bump("tick")
    /\ last' = [op |-> "step"]
    /\ pre' = Snapshot

NextSmoke == DrawSmoke \/ TickSmoke \/ Visit \/ Swap

SpecSmoke == InitSmoke /\ [][NextSmoke]_vars

----------------------------------------------------------------------------
(* The stale-age specification: on the 4 x 4 grid the user draws Wall at   *)
(* (2,2), Wood at (1,2) and Smoke at (1,1) before the first tick, lets the *)
(* simulation run for the Fire lifespan, and then draws Water at (2,1) and *)
(* Fire over the Wood at (1,2), with ticks in between.                     *)
StaleSetup ==
    <<<<2, 3, 2, 3, WALL, MinBrush, FALSE>>,
      <<1, 3, 1, 3, WOOD, MinBrush, FALSE>>,
      <<1, 0, 1, 0, SMOKE, MinBrush, FALSE>>>>

StaleDraws ==
    <<<<2, 0, 2, 0, WATER, MinBrush, FALSE>>,
      <<1, 3, 1, 3, FIRE, MinBrush, FALSE>>>>

InitStale ==
    /\ InitGrid(8, 8)
    /\ InitHistory

DrawStale ==
    /\ count.edit < Len(StaleSetup) + Len(StaleDraws)
    /\ IF count.edit < Len(StaleSetup) THEN count.tick = 0
       ELSE count.tick >= FIRE_LIFESPAN
    /\ \E d \in {(StaleSetup \o StaleDraws)[count.edit + 1]} :
          DrawAtCurrentPosition(d[1], d[2], d[3], d[4], d[5], d[6], d[7])
    /\ count' = Bump("edit")
    /\ last' = [op |-> "paint"]
    /\ pre' = NoPre

TickStale ==
    /\ count.edit >= Len(StaleSetup)
    /\ count.tick < FIRE_LIFESPAN + MaxStaleTicks
    /\ StepBegin
    /\ count' = Bump("tick")
    /\ last' = [op |-> "step"]
    /\ pre' = Snapshot

NextStale == DrawStale \/ TickStale \/ Visit \/ Swap

SpecStale == InitStale /\ [][NextStale]_vars

----------------------------------------------------------------------------
(* Claims checked under Spec.                                               *)

AfterStep == phase = "idle" /\ last.op = "step"

(* The grid of the extinguish scenario: the interior is empty but for Fire *)
(* at f and Water directly above it.                                        *)
ExtinguishScenario(c, f) ==
    /\ f \in Interior(width, height)
    /\ f - width \in Interior(width, height)
    /\ c[f] = FIRE
    /\ c[f - width] = WATER
    /\ \A i \in Interior(width, height) \ {f, f - width} : c[i] = EMPTY

(* C2: one step from the extinguish scenario (Fire with Water directly     *)
(* above it in an otherwise empty interior) leaves Smoke at the Fire's     *)
(* cell, and the Fire has not risen.  After a step nextCells holds the     *)
(* grid the step began with.                                                *)
C2_ExtinguishInPlace ==
    \A f \in DOMAIN cells :
        (AfterStep /\ ExtinguishScenario(nextCells, f))
            => (cells[f] = SMOKE /\ cells[f - width] # FIRE)

(* C5: when the rule of a Sand, Salt, Water or Oil cell writes its own     *)
(* material into a neighbour, that neighbour held, before the tick, Empty  *)
(* or a material of strictly lower density, and never Wall.                *)
C5_DensityOrdering ==
    fx.material \in {SAND, SALT, WATER, OIL} =>
        \A t \in fx.moved :
            /\ cells[t] # WALL
            /\ cells[t] = EMPTY \/ Density(cells[t]) < Density(fx.material)

(* C5's case: a mover has just displaced a lighter material that is not    *)
(* Empty.                                                                    *)
C5_Witness ==
    /\ fx.material \in {SAND, SALT, WATER, OIL}
    /\ \E t \in fx.moved : cells[t] # EMPTY /\ nextCells[t] = fx.material

(* C7: every index a material rule reads or writes during a step lies in   *)
(* [0, width*height).                                                        *)
C7_NoOutOfRange == fx.touched \subseteq Indices(width, height)

(* C10: a grid is never created or replaced with a width or height below   *)
(* 1: construction and resize reject such dimensions and leave the grid    *)
(* that was in place.                                                        *)
C10_DimensionValidation ==
    last.op \in {"init", "resize"} => (width >= 1 /\ height >= 1)

----------------------------------------------------------------------------
(* Claims checked under SpecPaint.                                          *)

AfterPaint == last.op = "paint"

AfterResize == last.op = "resize"

Changed(i) == cells[i] # pre.cells[i] \/ age[i] # pre.age[i]

(* The cells of the grid that were cells of the grid before the resize,    *)
(* as pairs of the index now and the index then.                           *)
Kept ==
    {<<x + y * width, x + y * pre.width>> :
        x \in 0 .. (Min(width, pre.width) - 1),
        y \in 0 .. (Min(height, pre.height) - 1)}

(* C1: after construction and after every step, draw (any stroke, any      *)
(* material, any brush, erasing or not), clear and resize, every cell of   *)
(* row 0, row height-1, column 0 and column width-1 of the current buffer  *)
(* holds Wall.                                                              *)
C1_BorderInvariant == \A i \in Border(width, height) : cells[i] = WALL

(* C1's case: after a draw and a tick the grid was made narrower, and a    *)
(* cell that did not hold Wall lies on the border now; a particle is still *)
(* on the grid.                                                             *)
C1_Witness ==
    /\ AfterResize
    /\ count.tick >= 1
    /\ width > 0
    /\ \E k \in Kept : k[1] \in Border(width, height) /\ pre.cells[k[2]] # WALL
    /\ \E i \in Interior(width, height) : cells[i] \notin {EMPTY, WALL}

(* C6: after a step, a draw or a resize, every cell whose material differs *)
(* from the material it held before the operation has age 0.  After a step *)
(* nextCells holds the grid the step began with.                            *)
C6_AgeReset ==
    /\ AfterStep => \A i \in DOMAIN cells : cells[i] # nextCells[i] => age[i] = 0
    /\ AfterPaint => \A i \in DOMAIN cells : cells[i] # pre.cells[i] => age[i] = 0
    /\ AfterResize => \A k \in Kept : cells[k[1]] # pre.cells[k[2]] => age[k[1]] = 0

NearStroke(i) ==
    \E p \in {StrokePoints(last.prevX, last.prevY, last.x, last.y)[k] :
                 k \in 1 .. (StrokeSteps(last.prevX, last.prevY, last.x, last.y) + 1)} :
        LET dx == (i % width) - p[1]
            dy == (i \div width) - p[2]
        IN  dx * dx + dy * dy <= last.brushSize * last.brushSize

C9_PaintContainment ==
    AfterPaint =>
        \A i \in DOMAIN cells :
            Changed(i) =>
                /\ i % width > 0 /\ i % width < width - 1
                /\ i \div width > 0 /\ i \div width < height - 1
                /\ NearStroke(i)

(* C9's case: a stroke with points outside the grid has changed a cell,    *)
(* one whose age was not 0 among them, and left a cell unchanged.           *)
C9_Witness ==
    /\ AfterPaint
    /\ (last.x >= width \/ last.prevX <= 0)
    /\ \E i \in DOMAIN cells : cells[i] # pre.cells[i]
    /\ \E i \in DOMAIN cells : age[i] # pre.age[i]
    /\ \E i \in Interior(width, height) : ~Changed(i)

----------------------------------------------------------------------------
(* Claims checked under SpecLife.                                           *)

(* The interior cells that held the material when the last tick began and  *)
(* whose age the tick's increment took to the material's lifespan.         *)
ReachedLifespan(material) ==
    {i \in Interior(width, height) :
        pre.cells[i] = material /\ pre.age[i] + 1 >= Lifespan(material)}

(* C3: once a tick is complete, every interior cell that held Fire and     *)
(* whose age the tick's increment took to the Fire lifespan holds Smoke    *)
(* with age 0 (so it does not hold Empty), whatever the visiting order and *)
(* the neighbouring materials.                                              *)
C3_FireLifecycle ==
    AfterStep =>
        \A i \in ReachedLifespan(FIRE) : cells[i] = SMOKE /\ age[i] = 0

(* C4: once a tick is complete, every interior cell that held Smoke and    *)
(* whose age the tick's increment took to the Smoke lifespan holds Empty   *)
(* with age 0, whatever the visiting order and the neighbouring materials. *)
C4_SmokeLifecycle ==
    AfterStep =>
        \A i \in ReachedLifespan(SMOKE) : cells[i] = EMPTY /\ age[i] = 0

----------------------------------------------------------------------------
(* Claims checked under SpecStep.                                           *)

(* The grid of the settling scenario: the interior is empty but for a      *)
(* Sand or Salt cell at s, and the cell below s is an interior cell.       *)
SettlingScenario(c, s) ==
    /\ s \in Interior(width, height)
    /\ s + width \in Interior(width, height)
    /\ c[s] \in {SAND, SALT}
    /\ \A i \in Interior(width, height) \ {s} : c[i] = EMPTY

(* C11: one step from the settling scenario leaves the Sand or Salt in the *)
(* cell below, Empty in the cell it was in, and every other cell (material *)
(* and age) unchanged, whatever the visiting order and the random draws.   *)
C11_Settling ==
    \A s \in DOMAIN cells :
        (AfterStep /\ SettlingScenario(pre.cells, s))
            => /\ cells = [pre.cells EXCEPT ![s] = EMPTY, ![s + width] = pre.cells[s]]
               /\ age = pre.age

(* C11's case: a step has just been taken from the settling scenario, with *)
(* Salt.                                                                     *)
C11_Witness ==
    /\ AfterStep
    /\ \E s \in DOMAIN cells : SettlingScenario(pre.cells, s) /\ pre.cells[s] = SALT

----------------------------------------------------------------------------
(* Claims checked under SpecChain.                                          *)

LifespanElapsed == AfterStep /\ count.tick = FIRE_LIFESPAN

(* C12, as claimed: in every execution from the combustion scenario the    *)
(* cell the Fire was set in holds Smoke at the tick at which the Fire's    *)
(* lifespan has elapsed.                                                    *)
C12_CombustionChain == LifespanElapsed => cells[ChainFire] = SMOKE

(* C12, amended: the cell the Fire was set in holds Smoke (with age 0) at  *)
(* the tick at which the Fire's lifespan has elapsed in every execution in *)
(* which the Fire has not risen out of the cell before that tick.          *)
C12_CombustionChainUnlessRisen ==
    (LifespanElapsed /\ pre.cells[ChainFire] = FIRE
                     /\ pre.age[ChainFire] = FIRE_LIFESPAN - 1)
        => (cells[ChainFire] = SMOKE /\ age[ChainFire] = 0)

(* C12's case: the Fire stayed in its cell for its whole lifespan, above   *)
(* the Wood, and the lifespan has just elapsed.                             *)
C12_Witness ==
    /\ LifespanElapsed
    /\ pre.cells[ChainFire] = FIRE
    /\ pre.age[ChainFire] = FIRE_LIFESPAN - 1
    /\ pre.cells[ChainFire - width] = EMPTY
    /\ pre.cells[ChainFire + width] = WOOD

----------------------------------------------------------------------------
(* Claims checked under SpecResize.                                         *)

(* C13: after a resize every cell of the rectangle the old and the new     *)
(* grid share that is not on the new border has the material and the age   *)
(* it had; every cell outside the rectangle and not on the new border is   *)
(* Empty with age 0; every cell of the new border is Wall.                 *)
C13_ResizePreservation ==
    AfterResize =>
        \A i \in Indices(width, height) :
            LET x == i % width
                y == i \div width
            IN  IF IsEdge(x, y, width, height) THEN cells[i] = WALL
                ELSE IF x < pre.width /\ y < pre.height
                THEN /\ cells[i] = pre.cells[x + y * pre.width]
                     /\ age[i] = pre.age[x + y * pre.width]
                ELSE cells[i] = EMPTY /\ age[i] = 0

(* C13's case: a resize changed the length of a row and kept, off the new  *)
(* border, a Fire whose age is not 0; a cell of the old border is now an   *)
(* interior Wall.                                                            *)
C13_Witness ==
    /\ AfterResize
    /\ pre.width > 0 /\ width > pre.width
    /\ \E i \in Interior(width, height) : cells[i] = FIRE /\ age[i] > 0
    /\ \E i \in Interior(width, height) : cells[i] = WALL

(* C14: a resize to the grid's own width and height leaves the materials   *)
(* and the ages of the current buffer cell for cell as they were.          *)
C14_IdenticalResize ==
    (AfterResize /\ width = pre.width /\ height = pre.height)
        => (cells = pre.cells /\ age = pre.age)

(* C14's case: a grid holding a Fire whose age is not 0 was resized to its *)
(* own size.                                                                 *)
C14_Witness ==
    /\ AfterResize
    /\ width = pre.width /\ height = pre.height
    /\ \E i \in Interior(width, height) : pre.cells[i] = FIRE /\ pre.age[i] > 0

----------------------------------------------------------------------------
(* Claims checked under SpecRepaint and SpecPaint.                          *)

AfterRepaint == last.op = "repaint"

(* C15: a draw applied a second time with the same points, material,       *)
(* brush and erase flag, with no step in between, leaves the materials and *)
(* the ages exactly as the first application left them.                     *)
C15_PaintIdempotence == AfterRepaint => (cells = pre.cells /\ age = pre.age)

(* C15's case: a draw that wrote a material over a grid holding an         *)
(* interior Wall has been applied a second time.                            *)
C15_Witness ==
    /\ AfterRepaint
    /\ ~last.isErasing
    /\ \E i \in Interior(width, height) : NearStroke(i) /\ cells[i] = WALL
    /\ \E i \in Interior(width, height) :
          NearStroke(i) /\ cells[i] = last.material /\ last.material # WALL

----------------------------------------------------------------------------
(* Claims checked under SpecStroke.                                         *)

AfterStroke == last.op = "stroke"

(* C17: for integer end points the interpolated sequence starts at         *)
(* (prevX,prevY), ends at (x,y), has max(|dx|,|dy|,1)+1 points, and two    *)
(* consecutive points differ by at most 1 in each coordinate.              *)
C17_GapFreeStroke ==
    AfterStroke =>
        LET points == last.points
            n == Len(points)
        IN  /\ points[1] = <<last.prevX, last.prevY>>
            /\ points[n] = <<last.x, last.y>>
            /\ n = Max(Max(Abs(last.x - last.prevX), Abs(last.y - last.prevY)), 1) + 1
            /\ \A k \in 1 .. (n - 1) :
                  /\ Abs(points[k + 1][1] - points[k][1]) <= 1
                  /\ Abs(points[k + 1][2] - points[k][2]) <= 1

(* C17's case: a stroke of several steps whose shorter side is rounded at  *)
(* a half, running towards smaller x and larger y.                          *)
C17_Witness ==
    /\ AfterStroke
    /\ last.x - last.prevX = 0 - 4
    /\ last.y - last.prevY = 2
    /\ Len(last.points) = 5
    /\ last.points[2][2] = last.prevY + 1

----------------------------------------------------------------------------
(* Claims checked under SpecBuffer.                                         *)

(* The writes a loop iteration for index would make had no earlier         *)
(* iteration of the tick written anything: the rule applied to the         *)
(* pre-tick materials alone.                                                *)
WritesFromCurrent(index) ==
    LET material == cells[index]
        a1 == IF Lifespan(material) > 0 THEN Aged(age, index) ELSE age
    IN  IF Expires(material, a1[index])
        THEN {ExpiredInto(cells, index, material)}
        ELSE {r.next : r \in RuleOutcomes(cells, a1, index, material)}

InTick == phase = "tick" /\ phase' = "tick"

AtSwap == phase = "tick" /\ phase' = "idle"

(* C18: during a tick the current buffer is not written and it holds the   *)
(* pre-tick materials; what an iteration writes into the next buffer is    *)
(* what its rule writes when applied to the pre-tick materials alone,      *)
(* whatever earlier iterations wrote; and at the swap the next buffer      *)
(* becomes the current one while nextCells receives the pre-tick           *)
(* materials.                                                               *)
C18_BufferDiscipline ==
    [][ /\ InTick =>
            /\ cells = pre.cells
            /\ cells' = cells
            /\ \E index \in pending \ pending' :
               \E next \in WritesFromCurrent(index) :
                  nextCells' = [i \in DOMAIN cells |->
                                   IF next[i] # cells[i] THEN next[i] ELSE nextCells[i]]
        /\ AtSwap => (cells' = nextCells /\ nextCells' = pre.cells)
      ]_vars

(* C18's case: a step that visited two or more cells and changed the grid  *)
(* has ended.                                                                *)
C18_Witness ==
    /\ AfterStep
    /\ Cardinality(Visited(width, height, pre.cells)) >= 2
    /\ cells # pre.cells
    /\ nextCells = pre.cells

----------------------------------------------------------------------------
(* Claims checked under Spec: Water next to Fire.                           *)

(* C19: in every tick, when the rule of an interior Water cell has run,    *)
(* the next buffer holds Smoke at every cell among the Water's eight       *)
(* neighbours that held Fire before the tick, also when the Water itself   *)
(* moved down or diagonally down.                                           *)
C19_WaterExtinguishEveryTick ==
    (phase = "tick" /\ fx # NoFx /\ fx.material = WATER) =>
        \A f \in Around(fx.index) \ {fx.index} :
            cells[f] = FIRE => nextCells[f] = SMOKE

----------------------------------------------------------------------------
(* Claims checked under Spec: Salt over Water.                              *)

(* A Salt cell the loop is about to visit whose cell below holds Water.    *)
SaltOverWater(index) ==
    /\ phase = "tick"
    /\ index \in pending
    /\ cells[index] = SALT
    /\ cells[index + width] = WATER

(* C20: the dissolution rule can act: when a Salt cell whose cell directly *)
(* below holds Water is visited, one outcome of its rule leaves Water at   *)
(* the Salt's position without the Salt having been moved by a swap.       *)
C20_SaltDissolutionReachable ==
    \A index \in DOMAIN cells :
        SaltOverWater(index) =>
            \E r \in RuleOutcomes(nextCells, age, index, SALT) :
                r.moved = {} /\ r.next[index] = WATER

(* What the rule does instead, in every reachable state: a visited Salt    *)
(* cell with Water below has moved into the cell below.                    *)
SaltOverWaterSinks ==
    (phase = "tick" /\ fx # NoFx /\ fx.material = SALT
        /\ cells[fx.index + width] = WATER)
        => (fx.moved = {fx.index + width} /\ nextCells[fx.index + width] = SALT)

----------------------------------------------------------------------------
(* Claims checked under SpecSand.                                           *)

SandCells(c) == {i \in DOMAIN c : c[i] = SAND}

(* A grid that holds only Sand, Empty and Wall.                            *)
SandGrid(c) == \A i \in DOMAIN c : c[i] \in {SAND, EMPTY, WALL}

SandLost ==
    /\ AfterStep
    /\ SandGrid(pre.cells)
    /\ Cardinality(SandCells(cells)) < Cardinality(SandCells(pre.cells))

(* C21: a step of a grid of Sand, Empty and Wall can leave fewer Sand      *)
(* cells than before, and when it does, two Sand cells have moved into the *)
(* same Empty cell: a cell that was Empty holds Sand and two or more of    *)
(* the three cells above it held Sand and are Empty.                       *)
C21_MatterNotConserved ==
    SandLost =>
        \E t \in Interior(width, height) :
            /\ pre.cells[t] = EMPTY
            /\ cells[t] = SAND
            /\ Cardinality({s \in {t - width - 1, t - width, t - width + 1} :
                               pre.cells[s] = SAND /\ cells[s] = EMPTY}) >= 2

(* C21's case: a step has left strictly fewer Sand cells than it found.    *)
C21_Witness == SandLost /\ Cardinality(SandCells(cells)) = 2

(* C28: a step of a grid of Sand, Empty and Wall never leaves more Sand    *)
(* cells than it found, and leaves no material other than Sand, Empty and  *)
(* Wall.                                                                     *)
C28_NoSandCreated ==
    (AfterStep /\ SandGrid(pre.cells)) =>
        /\ Cardinality(SandCells(cells)) <= Cardinality(SandCells(pre.cells))
        /\ SandGrid(cells)

(* C28's case: a step has moved two Sand cells of a grid that also holds   *)
(* an interior Wall.                                                         *)
C28_Witness ==
    /\ AfterStep
    /\ SandGrid(pre.cells)
    /\ \E i \in Interior(width, height) : pre.cells[i] = WALL
    /\ Cardinality(SandCells(pre.cells)) >= 2
    /\ Cardinality(SandCells(cells) \ SandCells(pre.cells)) >= 1

----------------------------------------------------------------------------
(* Claims checked under SpecSmoke.                                          *)

SmokeCells == {i \in DOMAIN cells : cells[i] = SMOKE}

(* C22: a single Smoke particle created with age 0 in a grid of Wall and   *)
(* Empty, followed through its moves, is there after every tick before the *)
(* tick at which it has existed for the Smoke lifespan, and is gone after  *)
(* that tick.                                                                *)
C22_MovingSmokeLifespan ==
    AfterStep =>
        /\ count.tick < SMOKE_LIFESPAN => Cardinality(SmokeCells) = 1
        /\ count.tick = SMOKE_LIFESPAN => SmokeCells = {}

(* The part of C22 the code keeps: the particle does not go early.         *)
SmokeNeverEarly ==
    (AfterStep /\ count.tick < SMOKE_LIFESPAN) => Cardinality(SmokeCells) = 1

----------------------------------------------------------------------------
(* Claims checked under SpecChain: the sub-rules of Fire.                   *)

(* The flammable neighbours of index that no iteration has set on fire yet *)
(* in this tick.                                                             *)
Unlit(index) == {n \in Ignitable(index) : nextCells[n] # FIRE}

(* A Fire cell the loop is about to visit that does not expire in this     *)
(* tick, with the cell above it Empty and a flammable neighbour.           *)
FireBelowEmpty(index) ==
    /\ phase = "tick"
    /\ index \in pending
    /\ cells[index] = FIRE
    /\ ~Expires(FIRE, Aged(age, index)[index])
    /\ cells[index - width] = EMPTY
    /\ Unlit(index) # {}

(* C23: the sub-rules of Fire are independent: when a Fire cell that does  *)
(* not expire, with the cell above it Empty and a flammable neighbour, is  *)
(* visited, one outcome of its rule both moves the Fire into the cell      *)
(* above and sets a neighbour on fire.                                      *)
C23_FireRisesAndIgnites ==
    \A index \in DOMAIN cells :
        FireBelowEmpty(index) =>
            \E r \in RuleOutcomes(nextCells, Aged(age, index), index, FIRE) :
                /\ r.moved = {index - width}
                /\ \E n \in Unlit(index) : r.next[n] = FIRE

(* What the rule does instead, in every step: the iteration of a Fire cell *)
(* that has risen leaves its flammable neighbours as they were.            *)
FireRisenIgnitesNothing ==
    [][(InTick /\ fx'.material = FIRE /\ fx'.moved # {})
          => \A n \in Ignitable(fx'.index) : nextCells'[n] = nextCells[n]]_vars

----------------------------------------------------------------------------
(* Claims checked under SpecStep: Wall and Wood.                            *)

WallCells(c) == {i \in DOMAIN c : c[i] = WALL}

(* C24: the cells holding Wall, on the border and in the interior, are the *)
(* same before and after a step, and a grid whose interior holds only      *)
(* Empty and Wall is unchanged by a step.                                   *)
C24_WallImmutable ==
    AfterStep =>
        /\ WallCells(cells) = WallCells(pre.cells)
        /\ (\A i \in DOMAIN cells : pre.cells[i] \in {EMPTY, WALL}) => cells = pre.cells

(* C24's case: a step has ended on a grid with an interior Wall under a    *)
(* material that falls, and has changed the grid.                           *)
C24_Witness ==
    /\ AfterStep
    /\ \E i \in Interior(width, height) :
          /\ pre.cells[i] = WALL
          /\ pre.cells[i - width] \in {SAND, SALT, WATER, OIL}
    /\ cells # pre.cells

(* C25: a cell holding Wood before a step holds Wood or Fire after it, and *)
(* Fire only if one of its eight neighbours held Fire before the step.     *)
C25_WoodPassive ==
    AfterStep =>
        \A i \in Interior(width, height) :
            pre.cells[i] = WOOD =>
                /\ cells[i] \in {WOOD, FIRE}
                /\ cells[i] = FIRE =>
                      \E n \in Around(i) \ {i} : pre.cells[n] = FIRE

(* C25's case: a step has set a Wood cell on fire.                          *)
C25_Witness ==
    /\ AfterStep
    /\ \E i \in Interior(width, height) : pre.cells[i] = WOOD /\ cells[i] = FIRE

----------------------------------------------------------------------------
(* Claims checked under SpecStep: Plant near Water.                         *)

(* The cells of the grid within two columns and two rows of cell i.        *)
Radius2(i) ==
    {j \in DOMAIN cells :
        /\ Abs((j % width) - (i % width)) <= 2
        /\ Abs((j \div width) - (i \div width)) <= 2}

----------------------------------------------------------------------------
(* Claims checked under SpecStale.                                          *)

(* C27: every age is at most 99, one below the largest lifespan, and a     *)
(* cell that holds Fire right after a step has an age of at most 39, one   *)
(* below the Fire lifespan (so the 16-bit counter does not wrap).          *)
C27_AgeBounded ==
    /\ \A i \in DOMAIN age : age[i] <= SMOKE_LIFESPAN - 1
    /\ AfterStep =>
          \A i \in DOMAIN cells : cells[i] = FIRE => age[i] <= FIRE_LIFESPAN - 1

(* The part of C27 the code keeps: no age reaches the largest lifespan.    *)
AgeBelowLargestLifespan == \A i \in DOMAIN age : age[i] < SMOKE_LIFESPAN

----------------------------------------------------------------------------
(* The Pause button and the animation loop.                                *)
(*                                                                          *)
(* The loop is started once, by the effect with the empty dependency list, *)
(* with the update function of the first render, and that function         *)
(* reschedules itself.  The isPaused it reads is the constant of the first *)
(* render, the initial state false, whatever the button has set since.     *)
UpdateIsPaused == FALSE

(* The Pause button: onClick={() => setIsPaused(!isPaused)}.                *)
TogglePause ==
    /\ phase = "idle"
    /\ count.edit < MaxEdits
    /\ isPaused' = ~isPaused
    /\ UNCHANGED <<gridVars, phase, pending, fx>>
    /\ Edit("pause")

(* One animation frame: update() calls updateSimulation() unless the       *)
(* isPaused it reads is true.                                              *)
Frame == ~UpdateIsPaused /\ TickLogged

NextPause == Paint \/ TogglePause \/ Frame \/ Visit \/ Swap

SpecPause == Init /\ [][NextPause]_vars

(* C29: while Pause is on, no animation frame runs updateSimulation(): no  *)
(* step is under way in a state where isPaused is true.                    *)
C29_PauseStopsSimulation == isPaused => phase = "idle"

----------------------------------------------------------------------------
(* Touch strokes.  mouseRef is kept in the logged entry: x, y, prevX and   *)
(* prevY are its fields after the handler, and isDown is true after a      *)
(* touchstart or a touchmove.  Before the first event it is the initial    *)
(* value {isDown: false, x: 0, y: 0, prevX: 0, prevY: 0}.                  *)
TouchOps == {"touchstart", "touchmove", "touchend"}

MouseX == IF last.op \in TouchOps THEN last.x ELSE 0

MouseY == IF last.op \in TouchOps THEN last.y ELSE 0

MouseIsDown == last.op \in {"touchstart", "touchmove"}

(* The touch points of the runs, and the brush settings of the render that *)
(* registered the handlers.                                                 *)
TouchPoints == {<<1, 1>>, <<2, 1>>, <<2, 2>>, <<5, 2>>, <<5, 5>>}

TouchModes == {<<SAND, FALSE>>, <<WATER, FALSE>>, <<SAND, TRUE>>}

(* updateTouchPosition followed by drawAtCurrentPosition: the old position *)
(* becomes the previous one, the touch point the current one, and the      *)
(* stroke is drawn between the two.                                         *)
TouchDraw(op, touch, selectedMaterial, brushSize, isErasing) ==
    /\ DrawAtCurrentPosition(MouseX, MouseY, touch[1], touch[2],
                             selectedMaterial, brushSize, isErasing)
    /\ Logged([op |-> op, prevX |-> MouseX, prevY |-> MouseY,
               x |-> touch[1], y |-> touch[2], material |-> selectedMaterial,
               brushSize |-> brushSize, isErasing |-> isErasing,
               resumed |-> last.op = "touchend"])

(* handleTouchStart, for the finger that starts a stroke.                  *)
HandleTouchStart ==
    /\ count.edit < MaxTouches
    /\ ~MouseIsDown
    /\ \E touch \in TouchPoints, m \in TouchModes, b \in PaintBrushes :
          TouchDraw("touchstart", touch, m[1], b, m[2])

(* handleTouchMove while the finger is down.                               *)
HandleTouchMove ==
    /\ count.edit < MaxTouches
    /\ MouseIsDown
    /\ \E touch \in TouchPoints, m \in TouchModes, b \in PaintBrushes :
          TouchDraw("touchmove", touch, m[1], b, m[2])

(* handleTouchEnd: isDown becomes false, the position stays.               *)
HandleTouchEnd ==
    /\ phase = "idle"
    /\ count.edit < MaxTouches
    /\ MouseIsDown
    /\ Logged([last EXCEPT !.op = "touchend"])
    /\ UNCHANGED <<gridVars, phase, pending, isPaused, fx>>

InitTouch == InitGrid(16, 16) /\ InitHistory

NextTouch == HandleTouchStart \/ HandleTouchMove \/ HandleTouchEnd

SpecTouch == InitTouch /\ [][NextTouch]_vars

(* C30: after a touchstart that follows the touchend of an earlier stroke, *)
(* every cell the draw changed lies within the brush radius of the new     *)
(* touch position.                                                          *)
C30_StrokeStartsAtTouchPoint ==
    (last.op = "touchstart" /\ last.resumed) =>
        \A i \in DOMAIN cells :
            cells[i] # pre.cells[i] =>
                LET dx == (i % width) - last.x
                    dy == (i \div width) - last.y
                IN  dx * dx + dy * dy <= last.brushSize * last.brushSize

====
